---- MODULE Spec2Model ----
(***************************************************************************)
(* Model of the audiobook series tracker: the release-state cache          *)
(* (storage.py), the next-book selector and the per-run orchestrator       *)
(* (next_book_finder.py), the command-line entry point (main.py), the      *)
(* library reconciler (audiobookshelf.py) and the outcome of the           *)
(* notification (notifications.py).                                        *)
(*                                                                         *)
(* Sequence numbers and owned orders are Python floats.  They are modelled *)
(* as integers counting 1/Scale steps, so that q stands for q / Scale: a   *)
(* value is a whole number exactly when Scale divides it.                  *)
(* Python's None is the empty tuple and a present value x is <<x>>.        *)
(***************************************************************************)
EXTENDS Integers, Sequences, FiniteSets, TLC

\* ---------------------------------------------------------------- bounds
Scale == 2
MaxSeq == 3
MaxOwned == 2
MaxBooks == 1
SelMaxBooks == 3
MaxRuns == 2
BuildMaxBooks == 3
MaxAffiliations == 2
MaxHits == 2
MaxLabelLen == 6
MaxSegments == 3

\* ---------------------------------------------------------------- values
None == <<>>
Some(x) == <<x>>

Series == {"A", "B"}
ExclusionConfigs == {{}, {"B"}}

SeqValues == 0..(MaxSeq * Scale)
OwnedOrders == {k * Scale : k \in 1..MaxOwned}

IsWhole(q) == q % Scale = 0

\* One search hit that survived the series filter: the product's asin is
\* its position in the search response, its title and cover follow the asin.
Book(i, q) ==
    [asin |-> i, title |-> <<"title", i>>, sequence |-> q,
     cover_url |-> <<"cover", i>>, issue_date |-> <<"date", i>>]

\* What the catalog answers for one series: a failure anywhere on the way
\* (null product, no candidate, no series asin, exception), or the surviving
\* search hits in response order, given by their sequence numbers.
Answers(max_hits) ==
    {[ok |-> FALSE, hits |-> <<>>]} \cup
    {[ok |-> TRUE, hits |-> h] : h \in UNION {[1..n -> SeqValues] : n \in 0..max_hits}}

CatalogAnswers == Answers(MaxBooks)

\* ------------------------------------------------------- audible_api.py
RECURSIVE InsertBySequence(_, _)
InsertBySequence(sorted, b) ==
    IF sorted = <<>> THEN <<b>>
    ELSE IF b.sequence < Head(sorted).sequence THEN <<b>> \o sorted
    ELSE <<Head(sorted)>> \o InsertBySequence(Tail(sorted), b)

RECURSIVE SortBySequence(_)
SortBySequence(books) ==
    IF books = <<>> THEN <<>>
    ELSE InsertBySequence(SortBySequence(SubSeq(books, 1, Len(books) - 1)),
                          books[Len(books)])

search_series_books(answer) ==
    IF ~answer.ok THEN <<>>
    ELSE SortBySequence([i \in 1..Len(answer.hits) |-> Book(i, answer.hits[i])])

\* --------------------------------------------------- next_book_finder.py
\* Variants of the scan with one comparison changed.
RECURSIVE ScanBooksLastTie(_, _, _, _)
ScanBooksLastTie(all_books, i, owned_max, next_book) ==
    IF i > Len(all_books) THEN next_book
    ELSE LET book == all_books[i]
             seq == book.sequence
         IN IF ~IsWhole(seq) THEN ScanBooksLastTie(all_books, i + 1, owned_max, next_book)
            ELSE IF seq > owned_max
                    /\ (next_book = None \/ seq <= next_book[1].sequence)
                 THEN ScanBooksLastTie(all_books, i + 1, owned_max, Some(book))
                 ELSE ScanBooksLastTie(all_books, i + 1, owned_max, next_book)

RECURSIVE ScanBooksWithFractions(_, _, _, _)
ScanBooksWithFractions(all_books, i, owned_max, next_book) ==
    IF i > Len(all_books) THEN next_book
    ELSE LET book == all_books[i]
             seq == book.sequence
         IN IF seq > owned_max
               /\ (next_book = None \/ seq < next_book[1].sequence)
            THEN ScanBooksWithFractions(all_books, i + 1, owned_max, Some(book))
            ELSE ScanBooksWithFractions(all_books, i + 1, owned_max, next_book)

\* Variant: a member at the owned order itself counts as beyond it.
RECURSIVE ScanBooksFromOwned(_, _, _, _)
ScanBooksFromOwned(all_books, i, owned_max, next_book) ==
    IF i > Len(all_books) THEN next_book
    ELSE LET book == all_books[i]
             seq == book.sequence
         IN IF ~IsWhole(seq) THEN ScanBooksFromOwned(all_books, i + 1, owned_max, next_book)
            ELSE IF seq >= owned_max
                    /\ (next_book = None \/ seq < next_book[1].sequence)
                 THEN ScanBooksFromOwned(all_books, i + 1, owned_max, Some(book))
                 ELSE ScanBooksFromOwned(all_books, i + 1, owned_max, next_book)

RECURSIVE ScanBooks(_, _, _, _)
ScanBooks(all_books, i, owned_max, next_book) ==
    IF i > Len(all_books) THEN next_book
    ELSE LET book == all_books[i]
             seq == book.sequence
         IN IF ~IsWhole(seq) THEN ScanBooks(all_books, i + 1, owned_max, next_book)
            ELSE IF seq > owned_max
                    /\ (next_book = None \/ seq < next_book[1].sequence)
                 THEN ScanBooks(all_books, i + 1, owned_max, Some(book))
                 ELSE ScanBooks(all_books, i + 1, owned_max, next_book)

find_next_book(answer, owned_max) ==
    LET all_books == search_series_books(answer)
    IN IF all_books = <<>> THEN None
       ELSE ScanBooks(all_books, 1, owned_max, None)

\* ------------------------------------------------------------ storage.py
DefaultCache == [last_updated |-> None, series |-> <<>>, new_releases |-> <<>>]

\* What json.load makes of a file that holds well-formed JSON which is not an
\* object, such as [] or null.
NotADocument == [json |-> "not an object"]

\* The cache file: absent; not openable for reading (IOError); not JSON
\* (JSONDecodeError, also what a torn write leaves); not UTF-8
\* (UnicodeDecodeError); JSON that is no cache document; or a cache document.
Missing == [state |-> "missing", doc |-> DefaultCache]
Unreadable == [state |-> "unreadable", doc |-> DefaultCache]
Corrupt == [state |-> "corrupt", doc |-> DefaultCache]
Undecodable == [state |-> "undecodable", doc |-> DefaultCache]
Misshapen == [state |-> "misshapen", doc |-> NotADocument]

SaveOutcomes == {"ok", "open_fails", "write_fails"}

\* load_cache catches json.JSONDecodeError and IOError and nothing else: the
\* UnicodeDecodeError of a file that is not UTF-8 leaves it.
load_cache_raises(f) == f.state = "undecodable"

\* Whatever json.load returns is returned as it is.
load_cache(f) == IF f.state \in {"ok", "misshapen"} THEN f.doc ELSE DefaultCache

\* Variant: the document is written without its new_releases list.
save_cache_without_new_releases(f, data, outcome, now) ==
    IF outcome = "ok"
    THEN [state |-> "ok", doc |-> [data EXCEPT !.last_updated = Some(now),
                                               !.new_releases = <<>>]]
    ELSE IF outcome = "open_fails" THEN f
    ELSE Corrupt

\* open(path, "w") truncates the file before json.dump writes it: a failure
\* of open leaves the old file, a failure while writing leaves a torn one.
save_cache(f, data, outcome, now) ==
    IF outcome = "ok"
    THEN [state |-> "ok", doc |-> [data EXCEPT !.last_updated = Some(now)]]
    ELSE IF outcome = "open_fails" THEN f
    ELSE Corrupt

get_cached_series(f, series_name) ==
    LET cache == load_cache(f)
    IN IF series_name \in DOMAIN cache.series
       THEN Some(cache.series[series_name]) ELSE None

\* Variant: a series is also updated when the owned order is unchanged.
should_update_series_on_equal(f, series_name, current_max_order) ==
    LET cached == get_cached_series(f, series_name)
    IN IF cached = None THEN TRUE
       ELSE current_max_order >= cached[1].owned_max

should_update_series(f, series_name, current_max_order) ==
    LET cached == get_cached_series(f, series_name)
    IN IF cached = None THEN TRUE
       ELSE current_max_order > cached[1].owned_max

PutEntry(m, k, v) == [x \in (DOMAIN m) \cup {k} |-> IF x = k THEN v ELSE m[x]]

\* Variant: the entry is changed in memory and never saved.
update_series_unsaved(f, series_name, owned_max, next_book, outcome, now) == f

\* Variant: the entry keeps the owned order the cache had (0 for a new entry).
update_series_stale_owned_max(f, series_name, owned_max, next_book, outcome, now) ==
    LET cache == load_cache(f)
        kept == IF series_name \in DOMAIN cache.series
                THEN cache.series[series_name].owned_max ELSE 0
        entry == [owned_max |-> kept, next_book |-> next_book]
    IN save_cache(f, [cache EXCEPT !.series = PutEntry(cache.series, series_name, entry)],
                  outcome, now)

\* Variant: an absent next book does not overwrite a cached present one.
update_series_keep_next_book(f, series_name, owned_max, next_book, outcome, now) ==
    LET cache == load_cache(f)
        kept == IF next_book = None /\ series_name \in DOMAIN cache.series
                THEN cache.series[series_name].next_book ELSE next_book
        entry == [owned_max |-> owned_max, next_book |-> kept]
    IN save_cache(f, [cache EXCEPT !.series = PutEntry(cache.series, series_name, entry)],
                  outcome, now)

\* Variant: the entry is put into a fresh document instead of the loaded one.
update_series_from_default(f, series_name, owned_max, next_book, outcome, now) ==
    LET entry == [owned_max |-> owned_max, next_book |-> next_book]
    IN save_cache(f, [DefaultCache EXCEPT
                        !.series = PutEntry(DefaultCache.series, series_name, entry)],
                  outcome, now)

update_series(f, series_name, owned_max, next_book, outcome, now) ==
    LET cache == load_cache(f)
        entry == [owned_max |-> owned_max, next_book |-> next_book]
    IN save_cache(f, [cache EXCEPT !.series = PutEntry(cache.series, series_name, entry)],
                  outcome, now)

\* Variant: only the series that have a next book are returned.
get_all_next_books_with_next_only(f) ==
    LET series == load_cache(f).series
    IN [s \in {x \in DOMAIN series : series[x].next_book # None} |-> series[s]]

get_all_next_books(f) == load_cache(f).series

\* Variant: a series seen for the first time counts as a new release.
detect_new_release_first_sighting(f, series_name, new_next_book) ==
    IF new_next_book = None THEN FALSE
    ELSE LET cached == get_cached_series(f, series_name)
         IN IF cached = None THEN TRUE
            ELSE cached[1].next_book = None

\* Variant: any change of the next book counts as a new release.
detect_new_release_on_change(f, series_name, new_next_book) ==
    IF new_next_book = None THEN FALSE
    ELSE LET cached == get_cached_series(f, series_name)
         IN IF cached = None THEN FALSE
            ELSE cached[1].next_book # new_next_book

detect_new_release(f, series_name, new_next_book) ==
    IF new_next_book = None THEN FALSE
    ELSE LET cached == get_cached_series(f, series_name)
         IN IF cached = None THEN FALSE
            ELSE cached[1].next_book = None

\* ------------------------------------------------------- audiobookshelf.py
OrderValues == 0..(MaxOwned * Scale)

\* The books of a series record: for each, whether its metadata or its path
\* gives an identifier, and its order within this series.
LibraryRecords(max_books) ==
    UNION {[1..n -> [asin_found : BOOLEAN, order : OrderValues]] : n \in 0..max_books}

\* The identifier of the i-th book, for which its position stands; None when
\* neither the metadata nor the path gives one.
ResolvedAsin(books, i) == IF books[i].asin_found THEN Some(i) ELSE None

\* Variant: a book whose order equals the running maximum replaces the sample.
RECURSIVE ScanLibraryBooksLastTie(_, _, _, _)
ScanLibraryBooksLastTie(books, i, max_order, sample_asin) ==
    IF i > Len(books) THEN [max_order |-> max_order, sample_asin |-> sample_asin]
    ELSE LET asin == ResolvedAsin(books, i)
             order == books[i].order
         IN IF asin = None
            THEN ScanLibraryBooksLastTie(books, i + 1, max_order, sample_asin)
            ELSE IF order >= max_order
                 THEN ScanLibraryBooksLastTie(books, i + 1, order, asin)
                 ELSE ScanLibraryBooksLastTie(books, i + 1, max_order,
                          IF sample_asin = None THEN asin ELSE sample_asin)

\* The loop over the books of one series record.
RECURSIVE ScanLibraryBooks(_, _, _, _)
ScanLibraryBooks(books, i, max_order, sample_asin) ==
    IF i > Len(books) THEN [max_order |-> max_order, sample_asin |-> sample_asin]
    ELSE LET asin == ResolvedAsin(books, i)
             order == books[i].order
         IN IF asin = None
            THEN ScanLibraryBooks(books, i + 1, max_order, sample_asin)
            ELSE IF order > max_order
                 THEN ScanLibraryBooks(books, i + 1, order, asin)
                 ELSE ScanLibraryBooks(books, i + 1, max_order,
                          IF sample_asin = None THEN asin ELSE sample_asin)

\* What build_series_dict_from_series makes of one series record; the record
\* enters series_dict when sample_asin is not None.
build_series_dict_from_series(books) == ScanLibraryBooks(books, 1, 0, None)

\* series_dict as build_series_dict_from_series returns it: the series of the
\* library that have a resolvable book, each with its highest owned order.
Snapshots ==
    UNION {{[s \in D |-> [max_order |-> m[s], sample_asin |-> <<"sample", s>>]] :
              m \in [D -> OwnedOrders]} : D \in SUBSET Series}

NoSnapshot == <<>>

\* ------------------------------------------------------------------ state
VARIABLES
    excluded,       \* config.EXCLUDED_SERIES
    file,           \* the cache file next_books.json
    pc,             \* where main is: idle, loop, notify, save, done, failed, interrupted
    runs,           \* invocations of main that processed so far; also the clock
    force,          \* args.force of the current run
    console_only,   \* args.console_only of the current run
    snapshot,       \* series_dict of the current run
    todo,           \* series of series_dict the loop has not visited yet
    new_releases,   \* the run's new-releases list
    results,        \* the mapping process_all_series returned
    notified,       \* what notify_new_releases did: none, unconfigured, sent, post_failed
    fileAtStart,    \* history: the cache file when the run started
    resolved,       \* history: series the Series Resolver was called for -> what came of it
    updated,        \* history: series whose upsert returned in this run
    skipped,        \* history: series the update policy skipped -> what the catalog held
    transitions,    \* history: series whose stored next_book went None -> present
    prev,           \* history: how this run relates to the one before it
    failedAt,       \* history: where the run's unhandled error came from, if any
    peak,           \* history: per series, the highest owned_max cached since the last forced run
    sel,            \* the selector's input and output (SpecSelect only)
    st,             \* a cache file and what the storage calls made of it (SpecStore only)
    bld,            \* a series record and what the reconciler built (SpecBuild only)
    cat,            \* a catalog call, what it was given and returned (SpecCatalog only)
    lbl             \* a label and what the reconciler read from it (SpecLabel only)

vars == <<excluded, file, pc, runs, force, console_only, snapshot, todo,
          new_releases, results, notified, fileAtStart, resolved, updated,
          skipped, transitions, prev, failedAt, peak, sel, st, bld, cat, lbl>>

config == <<excluded>>
history == <<fileAtStart, resolved, updated, skipped, transitions, prev, failedAt, peak>>
pure == <<sel, st, bld, cat, lbl>>

SelIdle == [answer |-> [ok |-> FALSE, hits |-> <<>>], owned_max |-> 0,
            result |-> None, called |-> FALSE]

NoCall == [op |-> "none", series_name |-> "A", max_order |-> 0, next_book |-> None,
           outcome |-> "ok", now |-> 0]

StIdle == [file |-> Missing, call |-> NoCall, before |-> Missing,
           res |-> [raised |-> FALSE, value |-> None, file |-> Missing]]

BldIdle == [books |-> <<>>, called |-> FALSE, max_order |-> 0, sample_asin |-> None]

CatIdle == [op |-> "none"]

LblIdle == [op |-> "none"]

NoPrev == [same |-> FALSE, completed |-> FALSE, unresolvable |-> {}]

InitRun ==
    /\ file = Missing
    /\ pc = "idle"
    /\ runs = 0
    /\ force = FALSE
    /\ console_only = FALSE
    /\ snapshot = NoSnapshot
    /\ todo = {}
    /\ new_releases = <<>>
    /\ results = <<>>
    /\ notified = "none"
    /\ fileAtStart = Missing
    /\ resolved = <<>>
    /\ updated = {}
    /\ skipped = <<>>
    /\ transitions = {}
    /\ prev = NoPrev
    /\ failedAt = "none"
    /\ peak = [s \in Series |-> 0]

Init ==
    /\ excluded \in ExclusionConfigs
    /\ InitRun
    /\ sel = SelIdle
    /\ st = StIdle
    /\ bld = BldIdle
    /\ cat = CatIdle
    /\ lbl = LblIdle

Stopped == pc \in {"idle", "done", "failed", "interrupted"}

\* The members of a resolved list that are whole-numbered and beyond owned_max.
Qualifying(all_books, owned_max) ==
    {all_books[i] : i \in {j \in 1..Len(all_books) :
                             /\ IsWhole(all_books[j].sequence)
                             /\ all_books[j].sequence > owned_max}}

\* ---------------------------------------------------------------- main.py
\* What main returned: 0 at its end, 1 from either except clause.
ExitCode ==
    IF pc = "done" THEN Some(0)
    ELSE IF pc \in {"failed", "interrupted"} THEN Some(1)
    ELSE None

\* The owned_max the file holds for a series, 0 when it holds none.
CachedOwnedMax(f, s) ==
    IF f.state = "ok" /\ s \in DOMAIN f.doc.series THEN f.doc.series[s].owned_max ELSE 0

\* The highest owned_max cached so far, counted anew from the file after a
\* run with the force flag.
PeakAtStart(f) ==
    [s \in Series |->
        IF f THEN 0
        ELSE IF CachedOwnedMax(file, s) > peak[s] THEN CachedOwnedMax(file, s)
        ELSE peak[s]]

\* main without --show, up to the call of fetch_all_series returning.
StartRun ==
    /\ Stopped
    /\ runs < MaxRuns
    /\ \E f \in BOOLEAN, c \in BOOLEAN, lib \in Snapshots, ex \in ExclusionConfigs :
         /\ force' = f
         /\ console_only' = c
         /\ snapshot' = lib
         /\ excluded' = ex
         /\ todo' = DOMAIN lib
         /\ peak' = PeakAtStart(f)
         /\ prev' = IF pc # "idle" /\ lib = snapshot /\ ex = excluded
                    THEN [same |-> TRUE, completed |-> pc = "done",
                          unresolvable |->
                              {s \in DOMAIN resolved : resolved[s].unresolvable}]
                    ELSE NoPrev
    /\ runs' = runs + 1
    /\ pc' = "loop"
    /\ new_releases' = <<>>
    /\ results' = <<>>
    /\ notified' = "none"
    /\ fileAtStart' = file
    /\ resolved' = <<>>
    /\ updated' = {}
    /\ skipped' = <<>>
    /\ transitions' = {}
    /\ failedAt' = "none"
    /\ UNCHANGED <<file, pure>>

\* fetch_library_series logs a request failure and raises it again; nothing
\* below main catches it, and main returns 1.
LibraryFails ==
    /\ Stopped
    /\ runs < MaxRuns
    /\ \E f \in BOOLEAN, c \in BOOLEAN, ex \in ExclusionConfigs :
         /\ force' = f
         /\ console_only' = c
         /\ excluded' = ex
         /\ peak' = PeakAtStart(f)
    /\ runs' = runs + 1
    /\ pc' = "failed"
    /\ failedAt' = "library"
    /\ snapshot' = NoSnapshot
    /\ todo' = {}
    /\ prev' = NoPrev
    /\ new_releases' = <<>>
    /\ results' = <<>>
    /\ notified' = "none"
    /\ fileAtStart' = file
    /\ resolved' = <<>>
    /\ updated' = {}
    /\ skipped' = <<>>
    /\ transitions' = {}
    /\ UNCHANGED <<file, pure>>

\* main --show: prints the cached mapping and returns 0.
Show ==
    /\ Stopped
    /\ UNCHANGED vars

\* ---------------------------------------- process_all_series, one iteration
\* Variant: the notice is built without the cover.
NoticeWithoutCover(series_name, book) ==
    [series_name |-> series_name, asin |-> book.asin, title |-> book.title,
     sequence |-> book.sequence, cover_url |-> <<>>]

Notice(series_name, book) ==
    [series_name |-> series_name, asin |-> book.asin, title |-> book.title,
     sequence |-> book.sequence, cover_url |-> book.cover_url]

\* Variant: the force flag overrides the exclusion.
IsExcludedUnlessForced(series_name) == series_name \in excluded /\ ~force

IsExcluded(series_name) == series_name \in excluded

SkipExcluded ==
    /\ pc = "loop"
    /\ \E s \in todo :
         /\ IsExcluded(s)
         /\ todo' = todo \ {s}
    /\ UNCHANGED <<config, file, pc, runs, force, console_only, snapshot,
                   new_releases, results, notified, history, pure>>

\* The catalog holds what it holds whether or not the run asks it: the answer
\* it would have given is recorded for the skipped series.
SkipCached ==
    /\ pc = "loop"
    /\ \E s \in todo, answer \in CatalogAnswers :
         /\ ~IsExcluded(s)
         /\ ~force
         /\ ~should_update_series(file, s, snapshot[s].max_order)
         /\ todo' = todo \ {s}
         /\ skipped' = PutEntry(skipped, s,
                          Qualifying(search_series_books(answer), snapshot[s].max_order))
    /\ UNCHANGED <<config, file, pc, runs, force, console_only, snapshot,
                   new_releases, results, notified, fileAtStart, resolved,
                   updated, transitions, prev, failedAt, peak, pure>>

StoredNextBook(f, s) ==
    IF f.state = "ok" /\ s \in DOMAIN f.doc.series
    THEN Some(f.doc.series[s].next_book) ELSE None

\* Variant: process_all_series catches the error of the upsert and goes on.
AfterUpsertCaught(outcome) == "loop"

\* update_series is called outside any try: an error of save_cache leaves
\* process_all_series and is caught at the top of main, which returns 1.
AfterUpsert(outcome) == IF outcome = "ok" THEN "loop" ELSE "failed"

ProcessSeries ==
    /\ pc = "loop"
    /\ \E s \in todo, answer \in CatalogAnswers, w \in SaveOutcomes :
         LET owned_max == snapshot[s].max_order
             next_book == find_next_book(answer, owned_max)
             is_new == next_book # None /\ detect_new_release(file, s, next_book)
             saved == update_series(file, s, owned_max, next_book, w, runs)
         IN /\ ~IsExcluded(s)
            /\ force \/ should_update_series(file, s, owned_max)
            /\ todo' = todo \ {s}
            /\ resolved' = PutEntry(resolved, s,
                   [next_book |-> next_book,
                    unresolvable |-> search_series_books(answer) = <<>>,
                    offered |-> Qualifying(search_series_books(answer), owned_max)])
            /\ new_releases' = IF is_new
                               THEN Append(new_releases, Notice(s, next_book[1]))
                               ELSE new_releases
            /\ file' = saved
            /\ pc' = AfterUpsert(w)
            /\ failedAt' = IF w = "ok" THEN failedAt ELSE "upsert"
            /\ IF w = "ok"
               THEN /\ updated' = updated \cup {s}
                    /\ transitions' = IF StoredNextBook(file, s) = Some(None)
                                         /\ StoredNextBook(saved, s) \notin {None, Some(None)}
                                      THEN transitions \cup {s} ELSE transitions
               ELSE UNCHANGED <<updated, transitions>>
            /\ peak' = IF w = "ok" /\ ~force /\ owned_max > peak[s]
                       THEN [peak EXCEPT ![s] = owned_max] ELSE peak
    /\ UNCHANGED <<config, runs, force, console_only, snapshot, results, notified,
                   fileAtStart, skipped, prev, pure>>

\* KeyboardInterrupt between two series: main returns 1.
Interrupt ==
    /\ pc = "loop"
    /\ pc' = "interrupted"
    /\ UNCHANGED <<config, file, runs, force, console_only, snapshot, todo,
                   new_releases, results, notified, history, pure>>

\* The loop is over: process_all_series returns get_all_next_books() and the
\* new-releases list.
FinishLoop ==
    /\ pc = "loop"
    /\ todo = {}
    /\ results' = get_all_next_books(file)
    /\ pc' = "notify"
    /\ UNCHANGED <<config, file, runs, force, console_only, snapshot, todo,
                   new_releases, notified, history, pure>>

\* notify_new_releases with an empty list returns at once.
NotifyNothing ==
    /\ pc = "notify"
    /\ new_releases = <<>>
    /\ pc' = "save"
    /\ UNCHANGED <<config, file, runs, force, console_only, snapshot, todo,
                   new_releases, results, notified, history, pure>>

\* notify_new_releases with notices: without DISCORD_WEBHOOK_URL nothing is
\* sent; with it send_discord_notification posts the embeds, and a failed
\* post is logged and returns False.
\* Variant: a failed post raises out of notify_new_releases.
AfterNotifyRaises(outcome) == IF outcome = "post_failed" THEN "failed" ELSE "save"

\* send_discord_notification catches the error of the post and returns False;
\* main goes on to the final save whatever came of the notification.
AfterNotify(outcome) == "save"

NotifyOutcomes == {"unconfigured", "sent", "post_failed"}

NotifySend ==
    /\ pc = "notify"
    /\ new_releases # <<>>
    /\ \E outcome \in NotifyOutcomes :
         /\ notified' = outcome
         /\ pc' = AfterNotify(outcome)
    /\ UNCHANGED <<config, file, runs, force, console_only, snapshot, todo,
                   new_releases, results, history, pure>>

\* main, lines 87-93: the whole-document save, unless --console-only.
FinalSaveSkipped ==
    /\ pc = "save"
    /\ console_only
    /\ pc' = "done"
    /\ UNCHANGED <<config, file, runs, force, console_only, snapshot, todo,
                   new_releases, results, notified, history, pure>>

\* Variant: the run's notices are added to the list the cache held.
FinalDocumentAccumulating(cache, series, notices) ==
    [cache EXCEPT !.series = series, !.new_releases = cache.new_releases \o notices]

\* cache["series"] = results; cache["new_releases"] = new_releases
FinalDocument(cache, series, notices) ==
    [cache EXCEPT !.series = series, !.new_releases = notices]

FinalSave ==
    /\ pc = "save"
    /\ ~console_only
    /\ \E w \in SaveOutcomes :
         LET cache == load_cache(file)
         IN /\ file' = save_cache(file, FinalDocument(cache, results, new_releases),
                                  w, runs)
            /\ pc' = IF w = "ok" THEN "done" ELSE "failed"
            /\ failedAt' = IF w = "ok" THEN failedAt ELSE "final_save"
    /\ UNCHANGED <<config, runs, force, console_only, snapshot, todo,
                   new_releases, results, notified, fileAtStart, resolved, updated,
                   skipped, transitions, prev, peak, pure>>

Next ==
    \/ StartRun
    \/ LibraryFails
    \/ Show
    \/ SkipExcluded
    \/ SkipCached
    \/ ProcessSeries
    \/ Interrupt
    \/ FinishLoop
    \/ NotifyNothing
    \/ NotifySend
    \/ FinalSaveSkipped
    \/ FinalSave

Spec == Init /\ [][Next]_vars

\* ------------------------------------------ runs that find a cache in place
\* The cache an earlier completed run left for a library in which both
\* series were complete: an entry without next book for each, no notices.
CacheOfCompleteSeries ==
    [state |-> "ok",
     doc |-> [last_updated |-> Some(0),
              series |-> [s \in Series |-> [owned_max |-> Scale, next_book |-> None]],
              new_releases |-> <<>>]]

InitFromCache ==
    /\ excluded \in ExclusionConfigs
    /\ file \in {Missing, CacheOfCompleteSeries}
    /\ fileAtStart = file
    /\ pc = "idle"
    /\ runs = 0
    /\ force = FALSE
    /\ console_only = FALSE
    /\ snapshot = NoSnapshot
    /\ todo = {}
    /\ new_releases = <<>>
    /\ results = <<>>
    /\ notified = "none"
    /\ resolved = <<>>
    /\ updated = {}
    /\ skipped = <<>>
    /\ transitions = {}
    /\ prev = NoPrev
    /\ failedAt = "none"
    /\ peak = [s \in Series |-> 0]
    /\ sel = SelIdle
    /\ st = StIdle
    /\ bld = BldIdle
    /\ cat = CatIdle
    /\ lbl = LblIdle

SpecFromCache == InitFromCache /\ [][Next]_vars

\* ------------------------------------------- the selector on its own
\* find_next_book applied to every resolved list up to SelMaxBooks members
\* and every owned_max, any number of times.
InitSelect ==
    /\ excluded = {}
    /\ InitRun
    /\ sel \in {[answer |-> a, owned_max |-> o, result |-> None, called |-> FALSE] :
                  a \in Answers(SelMaxBooks), o \in SeqValues}
    /\ st = StIdle
    /\ bld = BldIdle
    /\ cat = CatIdle
    /\ lbl = LblIdle

CallFindNextBook ==
    /\ sel' = [sel EXCEPT !.result = find_next_book(sel.answer, sel.owned_max),
                          !.called = TRUE]
    /\ UNCHANGED <<config, file, pc, runs, force, console_only, snapshot, todo,
                   new_releases, results, notified, history, st, bld, cat, lbl>>

NextSelect == CallFindNextBook

SpecSelect == InitSelect /\ [][NextSelect]_vars

\* ------------------------------------- the storage functions on their own
\* Every storage function applied to every kind of cache file.
StoredNextBooks ==
    {None} \cup {Some(Book(1, q)) : q \in {x \in SeqValues : IsWhole(x) /\ x > 0}}

StoredEntries == [owned_max : OwnedOrders, next_book : StoredNextBooks]

StoredDocs ==
    [last_updated : {None, Some(1)},
     series : UNION {[D -> StoredEntries] : D \in SUBSET Series},
     new_releases : {<<>>, <<Notice("A", Book(1, Scale))>>}]

StoredFiles ==
    {Missing, Unreadable, Corrupt, Undecodable, Misshapen}
        \cup {[state |-> "ok", doc |-> d] : d \in StoredDocs}

Clock == 1..MaxRuns

Returned(v, f) == [raised |-> FALSE, value |-> v, file |-> f]
Raised(f) == [raised |-> TRUE, value |-> None, file |-> f]

\* One call of a storage function on the file f: whether it raised, what it
\* returned and the file it left.  Every function but detect_new_release with
\* no next book starts with load_cache; every function but load_cache then
\* uses what it got as a mapping, which raises when it is none.
StoreCall(f, c) ==
    IF c.op = "detect_new_release" /\ c.next_book = None THEN Returned(FALSE, f)
    ELSE IF load_cache_raises(f) THEN Raised(f)
    ELSE IF c.op = "load_cache" THEN Returned(load_cache(f), f)
    ELSE IF load_cache(f) = NotADocument THEN Raised(f)
    ELSE IF c.op = "get_cached_series"
         THEN Returned(get_cached_series(f, c.series_name), f)
    ELSE IF c.op = "should_update_series"
         THEN Returned(should_update_series(f, c.series_name, c.max_order), f)
    ELSE IF c.op = "detect_new_release"
         THEN Returned(detect_new_release(f, c.series_name, c.next_book), f)
    ELSE IF c.op = "get_all_next_books" THEN Returned(get_all_next_books(f), f)
    ELSE LET saved == IF c.op = "update_series"
                      THEN update_series(f, c.series_name, c.max_order, c.next_book,
                                         c.outcome, c.now)
                      ELSE save_cache(f, load_cache(f), c.outcome, c.now)
         IN IF c.outcome = "ok" THEN Returned(None, saved) ELSE Raised(saved)

InitStore ==
    /\ excluded = {}
    /\ InitRun
    /\ sel = SelIdle
    /\ bld = BldIdle
    /\ cat = CatIdle
    /\ lbl = LblIdle
    /\ st \in {[StIdle EXCEPT !.file = f, !.before = f, !.res.file = f] :
                 f \in StoredFiles}

AfterCall(c) ==
    [file |-> StoreCall(st.file, c).file, call |-> c, before |-> st.file,
     res |-> StoreCall(st.file, c)]

beside == <<config, file, pc, runs, force, console_only, snapshot, todo,
            new_releases, results, notified, history, sel, bld, cat, lbl>>

\* No storage function has been called on the drawn file yet.
Fresh == st.call.op = "none"

CallLoadCache ==
    /\ Fresh
    /\ st' = AfterCall([NoCall EXCEPT !.op = "load_cache"])
    /\ UNCHANGED beside

CallGetCachedSeries ==
    /\ Fresh
    /\ \E s \in Series :
         st' = AfterCall([NoCall EXCEPT !.op = "get_cached_series", !.series_name = s])
    /\ UNCHANGED beside

CallShouldUpdateSeries ==
    /\ Fresh
    /\ \E s \in Series, m \in OwnedOrders :
         st' = AfterCall([NoCall EXCEPT !.op = "should_update_series",
                                        !.series_name = s, !.max_order = m])
    /\ UNCHANGED beside

CallDetectNewRelease ==
    /\ Fresh
    /\ \E s \in Series, b \in StoredNextBooks :
         st' = AfterCall([NoCall EXCEPT !.op = "detect_new_release",
                                        !.series_name = s, !.next_book = b])
    /\ UNCHANGED beside

CallUpdateSeries ==
    /\ Fresh
    /\ \E s \in Series, m \in OwnedOrders, b \in StoredNextBooks,
          w \in SaveOutcomes, now \in Clock :
         st' = AfterCall([op |-> "update_series", series_name |-> s, max_order |-> m,
                          next_book |-> b, outcome |-> w, now |-> now])
    /\ UNCHANGED beside

CallGetAllNextBooks ==
    /\ Fresh
    /\ st' = AfterCall([NoCall EXCEPT !.op = "get_all_next_books"])
    /\ UNCHANGED beside

\* save_cache(load_cache())
CallSaveLoaded ==
    /\ Fresh
    /\ \E w \in SaveOutcomes, now \in Clock :
         st' = AfterCall([NoCall EXCEPT !.op = "save_loaded", !.outcome = w,
                                        !.now = now])
    /\ UNCHANGED beside

NextStore ==
    \/ CallLoadCache
    \/ CallGetCachedSeries
    \/ CallShouldUpdateSeries
    \/ CallDetectNewRelease
    \/ CallUpdateSeries
    \/ CallGetAllNextBooks
    \/ CallSaveLoaded

SpecStore == InitStore /\ [][NextStore]_vars

\* -------------------------------------------- the reconciler on its own
\* build_series_dict_from_series applied to every series record of up to
\* BuildMaxBooks books.
InitBuild ==
    /\ excluded = {}
    /\ InitRun
    /\ sel = SelIdle
    /\ st = StIdle
    /\ cat = CatIdle
    /\ lbl = LblIdle
    /\ bld \in {[BldIdle EXCEPT !.books = b] : b \in LibraryRecords(BuildMaxBooks)}

CallBuildSeriesDict ==
    /\ bld' = [bld EXCEPT
                 !.called = TRUE,
                 !.max_order = build_series_dict_from_series(bld.books).max_order,
                 !.sample_asin = build_series_dict_from_series(bld.books).sample_asin]
    /\ UNCHANGED <<config, file, pc, runs, force, console_only, snapshot, todo,
                   new_releases, results, notified, history, sel, st, cat, lbl>>

NextBuild == CallBuildSeriesDict

SpecBuild == InitBuild /\ [][NextBuild]_vars

\* ------------------------------------------- audible_api.py, the resolver
\* Strings whose letters matter are tuples of characters; str.lower() maps
\* the capitals of the alphabet in use to their small letters.
LowerChar(c) == IF c = "A" THEN "a" ELSE IF c = "B" THEN "b" ELSE c

Lower(s) == [i \in 1..Len(s) |-> LowerChar(s[i])]

\* Python's  sub in s  for strings.
Contains(s, sub) ==
    \E i \in 0..(Len(s) - Len(sub)) : SubSeq(s, i + 1, i + Len(sub)) = sub

Lists(S, n) == UNION {[1..k -> S] : k \in 0..n}

\* The order field of an affiliation as the catalog sends it: a number, an
\* empty value, a text holding "dramatized" in any case, or another text
\* that float() rejects.
Number(q) == [kind |-> "number", value |-> q]
Empty == [kind |-> "empty", value |-> 0]
Dramatized == [kind |-> "dramatized", value |-> 0]
Text == [kind |-> "text", value |-> 0]

\* An entry survives when it is not dramatized and float() accepts it.
Keeps(sequence) == sequence.kind \in {"number", "empty"}

\* seq_num = float(sequence) if sequence else 0
SeqNum(sequence) == IF sequence.kind = "number" THEN sequence.value ELSE 0

Affiliation(e) ==
    [asin |-> e.asin, title |-> e.title, sequence |-> SeqNum(e.sequence)]

RECURSIVE SeriesFieldCandidates(_, _)
SeriesFieldCandidates(entries, i) ==
    IF i > Len(entries) THEN <<>>
    ELSE (IF Keeps(entries[i].sequence) THEN <<Affiliation(entries[i])>> ELSE <<>>)
         \o SeriesFieldCandidates(entries, i + 1)

RECURSIVE RelationshipCandidates(_, _)
RelationshipCandidates(rels, i) ==
    IF i > Len(rels) THEN <<>>
    ELSE (IF /\ rels[i].relationship_type = "series"
             /\ rels[i].relationship_to_product # "merchant_title_authority"
             /\ Keeps(rels[i].sequence)
          THEN <<Affiliation(rels[i])>> ELSE <<>>)
         \o RelationshipCandidates(rels, i + 1)

\* Variant: the relationship list is read only when the series field itself
\* is empty.
get_series_from_product_field_empty(product) ==
    IF product.series # <<>>
    THEN SeriesFieldCandidates(product.series, 1)
    ELSE RelationshipCandidates(product.relationships, 1)

get_series_from_product(product) ==
    LET series_list == SeriesFieldCandidates(product.series, 1)
    IN  IF series_list # <<>>
        THEN series_list
        ELSE RelationshipCandidates(product.relationships, 1)

\* s.get("title") is truthy: present and not the empty string.
HasTitle(s) == s.title # None /\ s.title[1] # <<>>

\* Variant: the title is compared with the series name letter for letter.
RECURSIVE FirstTitleMatchExactCase(_, _, _)
FirstTitleMatchExactCase(series_info, series_name, i) ==
    IF i > Len(series_info) THEN None
    ELSE IF /\ HasTitle(series_info[i])
            /\ Contains(series_info[i].title[1], series_name)
         THEN Some(series_info[i])
         ELSE FirstTitleMatchExactCase(series_info, series_name, i + 1)

RECURSIVE FirstTitleMatch(_, _, _)
FirstTitleMatch(series_info, series_name, i) ==
    IF i > Len(series_info) THEN None
    ELSE IF /\ HasTitle(series_info[i])
            /\ Contains(Lower(series_info[i].title[1]), Lower(series_name))
         THEN Some(series_info[i])
         ELSE FirstTitleMatch(series_info, series_name, i + 1)

SelectTarget(series_info, series_name) ==
    LET target_series == FirstTitleMatch(series_info, series_name, 1)
    IN  IF target_series # None THEN target_series
        ELSE IF series_info # <<>> THEN Some(series_info[1])
        ELSE None

\* The first affiliation of a search result that carries the target's
\* series asin.
RECURSIVE MatchingAffiliation(_, _, _)
MatchingAffiliation(item_series, target_asin, i) ==
    IF i > Len(item_series) THEN None
    ELSE IF item_series[i].asin = target_asin THEN Some(item_series[i])
    ELSE MatchingAffiliation(item_series, target_asin, i + 1)

\* Variant: a result that belongs to the target series is reported with the
\* sequence of its first affiliation.
RECURSIVE MatchingBooksFirstAffiliation(_, _, _)
MatchingBooksFirstAffiliation(products, i, target_asin) ==
    IF i > Len(products) THEN <<>>
    ELSE LET item_series == get_series_from_product(products[i])
             s == MatchingAffiliation(item_series, target_asin, 1)
         IN  (IF s # None THEN <<Book(i, item_series[1].sequence)>> ELSE <<>>)
             \o MatchingBooksFirstAffiliation(products, i + 1, target_asin)

RECURSIVE MatchingBooks(_, _, _)
MatchingBooks(products, i, target_asin) ==
    IF i > Len(products) THEN <<>>
    ELSE LET item_series == get_series_from_product(products[i])
             s == MatchingAffiliation(item_series, target_asin, 1)
         IN  (IF s # None THEN <<Book(i, s[1].sequence)>> ELSE <<>>)
             \o MatchingBooks(products, i + 1, target_asin)

\* search_series_books step by step: the sample product (None when the
\* lookup gave nothing), the target series, the catalog search (asked or
\* not, answered or failed) and the books returned.
search_series_books_steps(series_name, product, response) ==
    IF product = None
    THEN [queried |-> FALSE, target |-> None, books |-> <<>>]
    ELSE LET series_info == get_series_from_product(product[1])
             target_series == SelectTarget(series_info, series_name)
         IN  IF target_series = None \/ target_series[1].asin = None
             THEN [queried |-> FALSE, target |-> target_series, books |-> <<>>]
             ELSE [queried |-> TRUE, target |-> target_series,
                   books |-> IF response.ok
                             THEN SortBySequence(
                                      MatchingBooks(response.products, 1,
                                                    target_series[1].asin))
                             ELSE <<>>]

\* Inputs of the resolver.
Titles ==
    {None, Some(<<>>), Some(<<"A", "b">>), Some(<<"x", "a", "B">>), Some(<<"b">>)}

SeriesNames == {<<"a", "b">>, <<"A", "B">>, <<"b">>, <<"c">>}

Product(series, relationships) ==
    [series |-> series, relationships |-> relationships]

\* Products for the extraction of candidates: every kind of order field in
\* the series field, every kind of relation in the relationship list.
ExtractionProducts(max_affiliations) ==
    {Product(s, r) :
        s \in Lists([asin : {Some(1)}, title : {Some(<<"A", "b">>)},
                     sequence : {Number(Scale), Empty, Dramatized, Text}],
                    max_affiliations),
        r \in Lists([relationship_type : {"series", "component"},
                     relationship_to_product : {"parent", "merchant_title_authority"},
                     asin : {Some(2)}, title : {Some(<<"b">>)},
                     sequence : {Number(2 * Scale), Dramatized}],
                    max_affiliations)}

\* Sample products for the choice of the target: candidates with and without
\* a series asin, with every title.
TargetProducts(max_affiliations) ==
    {None} \cup
    {Some(Product(s, <<>>)) :
        s \in Lists([asin : {None, Some(1), Some(2)}, title : Titles,
                     sequence : {Number(Scale)}],
                    max_affiliations)}

\* Search results for the filter: affiliations to the target series (asin 1)
\* and to another one (asin 2).
ResultProducts(max_affiliations) ==
    {Product(s, <<>>) :
        s \in Lists({[asin |-> Some(1), title |-> Some(<<"A", "b">>), sequence |-> Number(Scale)],
                     [asin |-> Some(1), title |-> Some(<<"A", "b">>), sequence |-> Number(2 * Scale)],
                     [asin |-> Some(2), title |-> Some(<<"b">>), sequence |-> Number(3 * Scale)],
                     [asin |-> Some(1), title |-> Some(<<"A", "b">>), sequence |-> Dramatized]},
                    max_affiliations)}

Failure == [ok |-> FALSE, products |-> <<>>]

Responses(max_affiliations, max_hits) ==
    {Failure} \cup
    {[ok |-> TRUE, products |-> p] :
        p \in Lists(ResultProducts(max_affiliations), max_hits)}

SampleProduct ==
    Some(Product(<<[asin |-> Some(1), title |-> Some(<<"A", "b">>),
                    sequence |-> Number(Scale)]>>, <<>>))

\* ------------------------------------------------ the resolver, call by call
InitCatalog ==
    /\ excluded = {}
    /\ InitRun
    /\ sel = SelIdle
    /\ st = StIdle
    /\ bld = BldIdle
    /\ cat = CatIdle
    /\ lbl = LblIdle

beyond_cat ==
    <<config, file, pc, runs, force, console_only, snapshot, todo,
      new_releases, results, notified, history, sel, st, bld, lbl>>

CallGetSeriesFromProduct ==
    /\ cat.op = "none"
    /\ \E product \in ExtractionProducts(MaxAffiliations) :
          cat' = [op |-> "get_series_from_product", product |-> product,
                  series_info |-> get_series_from_product(product)]
    /\ UNCHANGED beyond_cat

\* A search whose sample product varies; the catalog search fails or finds
\* nothing.
CallSearchForTarget ==
    /\ cat.op = "none"
    /\ \E series_name \in SeriesNames, product \in TargetProducts(MaxAffiliations),
          response \in {Failure, [ok |-> TRUE, products |-> <<>>]} :
          cat' = [op |-> "search_series_books", series_name |-> series_name,
                  product |-> product, response |-> response,
                  out |-> search_series_books_steps(series_name, product, response)]
    /\ UNCHANGED beyond_cat

\* A search whose response varies.
CallSearchForBooks ==
    /\ cat.op = "none"
    /\ \E response \in Responses(MaxAffiliations, MaxHits) :
          cat' = [op |-> "search_series_books", series_name |-> <<"a", "b">>,
                  product |-> SampleProduct, response |-> response,
                  out |-> search_series_books_steps(<<"a", "b">>, SampleProduct, response)]
    /\ UNCHANGED beyond_cat

NextCatalog ==
    \/ CallGetSeriesFromProduct
    \/ CallSearchForTarget
    \/ CallSearchForBooks

SpecCatalog == InitCatalog /\ [][NextCatalog]_vars

\* --------------------------------------- audiobookshelf.py, series labels
\* A label is a tuple of characters over this alphabet.
LabelChars == {"a", " ", "#", "1", "2", ".", "-"}

Labels(max_len) == Lists(LabelChars, max_len)

\* The digits after a decimal point that fit in a label, and the unit in
\* which float values are counted: 10^-FracDigits.
FracDigits == MaxLabelLen - 4
Unit == 10 ^ FracDigits

IsDigit(c) == c \in {"1", "2"}

DigitValue(c) == IF c = "1" THEN 1 ELSE 2

\* str.strip()
Strip(s) ==
    LET Inked == {i \in DOMAIN s : s[i] # " "}
    IN  IF Inked = {} THEN <<>>
        ELSE SubSeq(s, CHOOSE i \in Inked : \A j \in Inked : i <= j,
                       CHOOSE i \in Inked : \A j \in Inked : i >= j)

\* \d+
AllDigits(s) == s # <<>> /\ \A i \in DOMAIN s : IsDigit(s[i])

\* \d+(?:\.\d+)?
IsNum(s) ==
    \/ AllDigits(s)
    \/ \E d \in DOMAIN s :
          /\ s[d] = "."
          /\ AllDigits(SubSeq(s, 1, d - 1))
          /\ AllDigits(SubSeq(s, d + 1, Len(s)))

\* \d+(?:\.\d+)?(?:-(\d+(?:\.\d+)?))?
IsOrderStr(s) ==
    \/ IsNum(s)
    \/ \E h \in DOMAIN s :
          /\ s[h] = "-"
          /\ IsNum(SubSeq(s, 1, h - 1))
          /\ IsNum(SubSeq(s, h + 1, Len(s)))

\* \s*#(...)$ : blanks, the hash sign, an order string up to the end.
MatchesTail(s) ==
    \E k \in 0..(Len(s) - 1) :
        /\ \A i \in 1..k : s[i] = " "
        /\ s[k + 1] = "#"
        /\ IsOrderStr(SubSeq(s, k + 2, Len(s)))

RECURSIVE DigitsValue(_)
DigitsValue(s) ==
    IF s = <<>> THEN 0
    ELSE 10 * DigitsValue(SubSeq(s, 1, Len(s) - 1)) + DigitValue(s[Len(s)])

\* float() of a string that IsNum accepts, in units of 10^-FracDigits.
FloatOf(s) ==
    IF \E d \in DOMAIN s : s[d] = "."
    THEN LET d == CHOOSE d \in DOMAIN s : s[d] = "."
         IN  DigitsValue(SubSeq(s, 1, d - 1)) * Unit
             + DigitsValue(SubSeq(s, d + 1, Len(s))) * 10 ^ (FracDigits - (Len(s) - d))
    ELSE DigitsValue(s) * Unit

Larger(a, b) == IF a >= b THEN a ELSE b

\* Variant: the order of a range is its first endpoint.
OrderOfFirstEndpoint(order_str) ==
    IF \E h \in DOMAIN order_str : order_str[h] = "-"
    THEN LET h == CHOOSE h \in DOMAIN order_str : order_str[h] = "-"
         IN  FloatOf(SubSeq(order_str, 1, h - 1))
    ELSE FloatOf(order_str)

\* The order of a matched order string: the larger endpoint of a range.
OrderOf(order_str) ==
    IF \E h \in DOMAIN order_str : order_str[h] = "-"
    THEN LET h == CHOOSE h \in DOMAIN order_str : order_str[h] = "-"
         IN  Larger(FloatOf(SubSeq(order_str, 1, h - 1)),
                    FloatOf(SubSeq(order_str, h + 1, Len(order_str))))
    ELSE FloatOf(order_str)

\* re.match on the stripped label: group 1 is lazy, so it is the shortest
\* non-empty prefix after which the rest matches the tail.
parse_series_info(series_name) ==
    IF series_name = <<>> THEN [name |-> <<>>, order |-> 0]
    ELSE LET s == Strip(series_name)
             Prefixes == {n \in 1..(Len(s) - 1) : MatchesTail(SubSeq(s, n + 1, Len(s)))}
         IN  IF Prefixes # {}
             THEN LET n == CHOOSE n \in Prefixes : \A m \in Prefixes : n <= m
                      hash == CHOOSE h \in (n + 1)..Len(s) :
                                  /\ s[h] = "#"
                                  /\ \A i \in (n + 1)..(h - 1) : s[i] = " "
                  IN  [name |-> Strip(SubSeq(s, 1, n)),
                       order |-> OrderOf(SubSeq(s, hash + 1, Len(s)))]
             ELSE [name |-> s, order |-> 0]

\* str.split(",")
RECURSIVE Split(_)
Split(s) ==
    IF \E c \in DOMAIN s : s[c] = ","
    THEN LET c == CHOOSE c \in DOMAIN s : s[c] = "," /\ \A b \in 1..(c - 1) : s[b] # ","
         IN  <<SubSeq(s, 1, c - 1)>> \o Split(SubSeq(s, c + 1, Len(s)))
    ELSE <<s>>

\* Variant: an exact match sets the order but the loop goes on, so a later
\* partial match overrides it.
RECURSIVE ScanEntriesNoBreak(_, _, _, _)
ScanEntriesNoBreak(entries, i, series_name, order) ==
    IF i > Len(entries) THEN order
    ELSE LET parsed == parse_series_info(Strip(entries[i]))
         IN  IF \/ Lower(parsed.name) = Lower(series_name)
                \/ Contains(Lower(parsed.name), Lower(series_name))
                \/ Contains(Lower(series_name), Lower(parsed.name))
             THEN ScanEntriesNoBreak(entries, i + 1, series_name, parsed.order)
             ELSE ScanEntriesNoBreak(entries, i + 1, series_name, order)

\* The loop over the entries of a book's seriesName field.
RECURSIVE ScanEntries(_, _, _, _)
ScanEntries(entries, i, series_name, order) ==
    IF i > Len(entries) THEN order
    ELSE LET parsed == parse_series_info(Strip(entries[i]))
         IN  IF Lower(parsed.name) = Lower(series_name)
             THEN parsed.order
             ELSE IF \/ Contains(Lower(parsed.name), Lower(series_name))
                     \/ Contains(Lower(series_name), Lower(parsed.name))
             THEN ScanEntries(entries, i + 1, series_name, parsed.order)
             ELSE ScanEntries(entries, i + 1, series_name, order)

\* The order of a book within the series record named series_name.
OrderInSeries(series_name_field, series_name) ==
    ScanEntries(Split(series_name_field), 1, series_name, 0)

\* The seriesName field the library writes for a book in several series:
\* the labels joined by a comma and a blank.
RECURSIVE JoinLabels(_)
JoinLabels(segments) ==
    IF segments = <<>> THEN <<>>
    ELSE IF Len(segments) = 1 THEN segments[1]
    ELSE segments[1] \o <<",", " ">> \o JoinLabels(Tail(segments))

\* Labels of a book's series: the record's series in two spellings and with
\* no order, series whose names lie inside or around the record's name, and
\* an unrelated series.
SegmentLabels ==
    {<<"a", "b", " ", "#", "1">>, <<"A", "b", " ", "#", "2">>, <<"a", "b">>,
     <<"a", " ", "#", "2">>, <<"a", "b", "b", " ", "#", "1">>,
     <<"b", " ", "#", "1", "-", "2">>, <<"-", " ", "#", "2">>}

RecordNames == {<<"a", "b">>, <<"A", "B">>}

\* ------------------------------------------------- the labels, call by call
InitLabel ==
    /\ excluded = {}
    /\ InitRun
    /\ sel = SelIdle
    /\ st = StIdle
    /\ bld = BldIdle
    /\ cat = CatIdle
    /\ lbl = LblIdle

beyond_lbl ==
    <<config, file, pc, runs, force, console_only, snapshot, todo,
      new_releases, results, notified, history, sel, st, bld, cat>>

CallParseSeriesInfo ==
    /\ lbl.op = "none"
    /\ \E series_name \in Labels(MaxLabelLen) :
          lbl' = [op |-> "parse_series_info", series_name |-> series_name,
                  out |-> parse_series_info(series_name)]
    /\ UNCHANGED beyond_lbl

CallOrderInSeries ==
    /\ lbl.op = "none"
    /\ \E segments \in Lists(SegmentLabels, MaxSegments), series_name \in RecordNames :
          lbl' = [op |-> "order_in_series", segments |-> segments,
                  series_name |-> series_name,
                  order |-> OrderInSeries(JoinLabels(segments), series_name)]
    /\ UNCHANGED beyond_lbl

NextLabel ==
    \/ CallParseSeriesInfo
    \/ CallOrderInSeries

SpecLabel == InitLabel /\ [][NextLabel]_vars

\* ------------------------------------------------------------- properties
SelBooks == search_series_books(sel.answer)

SelAbove == {i \in 1..Len(SelBooks) : SelBooks[i].sequence > sel.owned_max}

SelQualifying == {i \in SelAbove : IsWhole(SelBooks[i].sequence)}

\* C8: find_next_book returns, among the members of the resolved list whose
\* sequence is a whole number strictly greater than owned_max, the one with
\* the smallest sequence, the first of the list when several share it, and
\* None when no member qualifies or the list is empty; every invocation on
\* the same list and owned_max returns this.
C8_SelectsSmallestFirst ==
    sel.called =>
        IF SelQualifying = {} THEN sel.result = None
        ELSE \E i \in SelQualifying :
                /\ sel.result = Some(SelBooks[i])
                /\ \A j \in SelQualifying :
                      \/ SelBooks[i].sequence < SelBooks[j].sequence
                      \/ SelBooks[i].sequence = SelBooks[j].sequence /\ i <= j

\* C8 witness: find_next_book was invoked on a list in which two members
\* share the smallest qualifying sequence, and returned the first.
C8_Witness ==
    /\ sel.called
    /\ \E i \in SelQualifying, j \in SelQualifying :
          /\ i < j
          /\ SelBooks[i].sequence = SelBooks[j].sequence
          /\ sel.result = Some(SelBooks[i])

\* C9: find_next_book never returns a member with a fractional sequence: it
\* returns None when every member beyond owned_max is fractional, and when a
\* whole-numbered member lies beyond owned_max it returns a whole-numbered one
\* no larger than any whole-numbered member beyond owned_max, whatever
\* fractional members lie in between.
C9_NeverFractional ==
    sel.called =>
        /\ sel.result # None => IsWhole(sel.result[1].sequence)
        /\ (\A i \in SelAbove : ~IsWhole(SelBooks[i].sequence)) => sel.result = None
        /\ (\E i \in SelAbove : IsWhole(SelBooks[i].sequence)) =>
              /\ sel.result # None
              /\ \A i \in SelAbove :
                    IsWhole(SelBooks[i].sequence) =>
                        sel.result[1].sequence <= SelBooks[i].sequence

\* C9 witness: a fractional member lies between owned_max and the member
\* find_next_book returned.
C9_Witness ==
    /\ sel.called
    /\ sel.result # None
    /\ \E i \in SelAbove :
          /\ ~IsWhole(SelBooks[i].sequence)
          /\ SelBooks[i].sequence < sel.result[1].sequence

\* What the file itself holds for a series, read without the cache functions.
HasEntry(f, s) == f.state = "ok" /\ s \in DOMAIN f.doc.series

EntryOf(f, s) == f.doc.series[s]

Visited == (DOMAIN snapshot) \ todo

LoopDone == pc \in {"notify", "save", "done"}

Reported(s) == \E i \in 1..Len(new_releases) : new_releases[i].series_name = s

\* The entry the previous run left says the series was complete.
PriorComplete(s) == HasEntry(fileAtStart, s) /\ EntryOf(fileAtStart, s).next_book = None

PolicyUpdates(s) ==
    \/ force
    \/ ~HasEntry(fileAtStart, s)
    \/ snapshot[s].max_order > EntryOf(fileAtStart, s).owned_max

\* The whole-numbered members beyond owned_max the catalog held for s when
\* the run came to it.
Offered(s) ==
    IF s \in DOMAIN resolved THEN resolved[s].offered
    ELSE IF s \in DOMAIN skipped THEN skipped[s]
    ELSE {}

ReportedWith(s) ==
    \E i \in 1..Len(new_releases), b \in Offered(s) :
        /\ new_releases[i] = [series_name |-> s, asin |-> b.asin, title |-> b.title,
                              sequence |-> b.sequence, cover_url |-> b.cover_url]
        /\ \A c \in Offered(s) : b.sequence <= c.sequence

\* C1: a series is on the run's new-releases list exactly when the next book
\* just resolved for it is present, the cache held an entry for it before
\* this run wrote one, and that entry's next_book was None; a series without
\* a prior entry, or whose prior next_book was present, is never on the list.
C1_ReportedIffWasComplete ==
    \A s \in Series :
        Reported(s) <=>
            /\ s \in DOMAIN resolved
            /\ resolved[s].next_book # None
            /\ HasEntry(fileAtStart, s)
            /\ EntryOf(fileAtStart, s).next_book = None

\* C1 witness: in one run a series that was complete is reported, and
\* another whose prior next book was present resolves a different next book
\* and is not reported.
C1_Witness ==
    \E s \in DOMAIN resolved, u \in DOMAIN resolved :
        /\ Reported(s)
        /\ PriorComplete(s)
        /\ HasEntry(fileAtStart, u)
        /\ EntryOf(fileAtStart, u).next_book # None
        /\ resolved[u].next_book # None
        /\ resolved[u].next_book # EntryOf(fileAtStart, u).next_book
        /\ ~Reported(u)

\* C2: in every run the new-releases list, which is what the run dispatches,
\* holds exactly one notice for each series whose stored next_book went from
\* None to present in this run, and no notice for any other series.
C2_OneNoticePerTransition ==
    pc \in {"loop", "notify", "save", "done", "interrupted"} =>
        /\ {new_releases[i].series_name : i \in 1..Len(new_releases)} = transitions
        /\ Len(new_releases) = Cardinality(transitions)

\* C2 witness: a completed run whose notices were sent for a series that
\* went from no next book to a next book.
C2_Witness ==
    /\ pc = "done"
    /\ notified = "sent"
    /\ transitions # {}

\* C3 as claimed: after the run's loop, every series whose prior entry had no
\* next book and for which the catalog holds a whole-numbered member beyond
\* owned_max is reported, with that member's asin, title, sequence and cover.
C3_NextRunReports ==
    LoopDone =>
        \A s \in DOMAIN snapshot :
            PriorComplete(s) /\ Offered(s) # {} => ReportedWith(s)

\* C3 as amended: a series that the run comes to and re-resolves (not
\* excluded; the force flag is set or the snapshot's owned_max is greater
\* than the cached one), whose prior entry had no next book and for which the
\* catalog holds a whole-numbered member beyond owned_max, is reported with
\* the series name and the asin, title, sequence and cover of the lowest
\* such member.
C3_ReportsWhenReResolved ==
    \A s \in Visited \ excluded :
        PolicyUpdates(s) /\ PriorComplete(s) /\ Offered(s) # {} => ReportedWith(s)

\* C3 witness: a completed run without the force flag reported a series that
\* was complete before.
C3_Witness ==
    /\ pc = "done"
    /\ ~force
    /\ \E s \in Visited : PriorComplete(s) /\ Offered(s) # {} /\ ReportedWith(s)

\* C4: a series of the snapshot that is not excluded and that the loop has
\* come to was resolved if and only if the force flag is set, or the cache
\* held no entry for it, or the snapshot's owned_max is greater than the
\* cached one; otherwise it was skipped; and a resolved series is upserted
\* unless its save raised.
C4_ResolvedIffPolicy ==
    \A s \in Visited \ excluded :
        /\ s \in DOMAIN resolved <=> PolicyUpdates(s)
        /\ s \in DOMAIN skipped <=> ~PolicyUpdates(s)
        /\ s \in DOMAIN resolved /\ pc # "failed" => s \in updated

\* C4 witness: without the force flag one series with an entry is skipped
\* and another with an entry is resolved because its owned_max grew.
C4_Witness ==
    /\ ~force
    /\ \E s \in DOMAIN skipped, u \in DOMAIN resolved :
          /\ HasEntry(fileAtStart, u)
          /\ snapshot[s].max_order = EntryOf(fileAtStart, s).owned_max
          /\ u \in updated

\* C5 as claimed: a series whose resolution came back empty in the run
\* before, which completed, is resolved again by a run with the same snapshot
\* and no force flag.
C5_RetriedNextRun ==
    LoopDone /\ prev.same /\ prev.completed /\ ~force =>
        \A s \in prev.unresolvable : s \in DOMAIN resolved

\* C6: a run that follows a completed run with the same snapshot and without
\* the force flag resolves no series, reports no new release and, as long as
\* no save fails part-way, leaves every cache entry as it was.
C6_SecondRunIdle ==
    prev.same /\ prev.completed /\ ~force =>
        /\ resolved = <<>>
        /\ new_releases = <<>>
        /\ file.state # "corrupt" => file.doc.series = fileAtStart.doc.series

\* C6 witness: such a second run completed, final save included, and skipped
\* a series the run before it had resolved.
C6_Witness ==
    /\ pc = "done"
    /\ prev.same /\ prev.completed /\ ~force /\ ~console_only
    /\ skipped # <<>>

C10_SkippedUntouched ==
    \A s \in DOMAIN skipped :
        /\ s \notin DOMAIN resolved
        /\ HasEntry(fileAtStart, s)
        /\ file.state # "corrupt" =>
              HasEntry(file, s) /\ EntryOf(file, s) = EntryOf(fileAtStart, s)
        /\ LoopDone =>
              s \in DOMAIN results /\ results[s] = EntryOf(fileAtStart, s)

\* C10 witness: a run skipped one series, upserted another and completed
\* with the final save of main.
C10_Witness ==
    /\ pc = "done"
    /\ ~console_only
    /\ skipped # <<>>
    /\ updated # {}

\* C11: whenever the upsert of a series returns, the file holds for that
\* series the entry {owned_max: the snapshot's max_order, next_book: what the
\* selector returned}; the next_book is None when the catalog offered no
\* whole-numbered member beyond owned_max, whatever the cache held before.
C11_UpsertWritesSelectorResult ==
    [][\A s \in Series :
          s \in updated' /\ s \notin updated =>
              /\ HasEntry(file', s)
              /\ EntryOf(file', s) = [owned_max |-> snapshot[s].max_order,
                                      next_book |-> resolved'[s].next_book]
              /\ resolved'[s].offered = {} => EntryOf(file', s).next_book = None
              /\ resolved'[s].offered # {} =>
                    /\ EntryOf(file', s).next_book # None
                    /\ EntryOf(file', s).next_book[1] \in resolved'[s].offered]_vars

\* C11 witness: a series whose cached next book was present was upserted
\* after its resolution failed, and its entry now has no next book.
C11_Witness ==
    \E s \in updated :
        /\ HasEntry(fileAtStart, s)
        /\ EntryOf(fileAtStart, s).next_book # None
        /\ resolved[s].unresolvable
        /\ HasEntry(file, s)
        /\ EntryOf(file, s).next_book = None

\* C12 as claimed: on a cache file that is missing, unreadable or holds
\* anything but a cache document, no storage function raises while reading,
\* load_cache returns the default structure, and every function returns and
\* leaves what it does on a missing file.
C12_ReadsDegradeToEmpty ==
    st.call.op # "none" /\ st.before.state # "ok" /\ st.call.outcome = "ok" =>
        /\ ~st.res.raised
        /\ st.res.value = StoreCall(Missing, st.call).value
        /\ st.res.file = st.before \/ st.res.file = StoreCall(Missing, st.call).file

C13_UpsertSaveFailureFatal ==
    /\ [](failedAt = "upsert" =>
             /\ ExitCode = Some(1)
             /\ notified = "none"
             /\ results = <<>>)
    /\ [][failedAt = "upsert" /\ failedAt' = "upsert" =>
             UNCHANGED <<resolved, updated, todo, file, notified>>]_vars

\* C13 witness: the save of an upsert raised while another series was still
\* to be processed and a release notice had already been collected.
C13_Witness ==
    /\ failedAt = "upsert"
    /\ todo \ excluded # {}
    /\ new_releases # <<>>

\* C14 as claimed: no run ends on an error of the library or of the catalog
\* collaborator: when main returns 1 on an error, a cache save raised it; and
\* a series whose catalog lookup failed is passed and the loop goes on.
C14_CollaboratorFailuresDegrade ==
    /\ pc = "failed" => failedAt \in {"upsert", "final_save"}
    /\ \A s \in DOMAIN resolved :
          resolved[s].unresolvable /\ failedAt = "none" =>
              pc \in {"loop", "notify", "save", "done", "interrupted"}

\* C15 as claimed: every series that had an entry in the file when the run
\* started has one at every point of the run and after it; the entry of a
\* series that is excluded or not in the snapshot is unchanged; and the
\* mapping process_all_series returns holds these entries.
C15_EntriesNeverDeleted ==
    \A s \in Series :
        HasEntry(fileAtStart, s) =>
            /\ HasEntry(file, s)
            /\ (s \in excluded \/ s \notin DOMAIN snapshot) =>
                  EntryOf(file, s) = EntryOf(fileAtStart, s)
            /\ LoopDone => s \in DOMAIN results
            /\ LoopDone /\ (s \in excluded \/ s \notin DOMAIN snapshot) =>
                  results[s] = EntryOf(fileAtStart, s)

\* C16: after a failed post of the notification the run goes on to the final
\* save: main does not return 1 unless that save raises; the entries upserted
\* in the run stay as written; and when main returns, it returns 0 and,
\* unless the run is console-only, the file holds the returned series
\* mapping and the run's new-releases list.
C16_PostFailureHarmless ==
    notified = "post_failed" =>
        /\ pc \in {"save", "done", "failed"}
        /\ pc = "failed" => failedAt = "final_save"
        /\ pc = "save" => ENABLED (FinalSave \/ FinalSaveSkipped)
        /\ file.state # "corrupt" =>
              \A s \in updated :
                  /\ HasEntry(file, s)
                  /\ EntryOf(file, s).next_book = resolved[s].next_book
        /\ pc = "done" =>
              /\ ExitCode = Some(0)
              /\ ~console_only =>
                    /\ file.doc.series = results
                    /\ file.doc.new_releases = new_releases
                    /\ file.doc.last_updated = Some(runs)

\* C16 witness: the post failed, and the run completed with its final save
\* and the entries it had upserted.
C16_Witness ==
    /\ notified = "post_failed"
    /\ pc = "done"
    /\ ~console_only
    /\ updated # {}
    /\ file.doc.new_releases # <<>>

\* C18 as claimed: a console-only run that completed left the cache file as
\* it found it.
C18_ConsoleOnlyLeavesFile ==
    console_only /\ pc = "done" => file = fileAtStart

\* C19: for a series of the exclusion set, with or without the force flag,
\* the Series Resolver is never called, the run reports no new release, and
\* whatever entry the file holds for it is the one the run found there.
C19_ExcludedUntouched ==
    \A s \in excluded :
        /\ s \notin DOMAIN resolved
        /\ s \notin updated
        /\ ~Reported(s)
        /\ HasEntry(file, s) =>
              /\ HasEntry(fileAtStart, s)
              /\ EntryOf(file, s) = EntryOf(fileAtStart, s)
        /\ LoopDone /\ s \in DOMAIN results =>
              /\ HasEntry(fileAtStart, s)
              /\ results[s] = EntryOf(fileAtStart, s)

\* C19 witness: a forced run came to an excluded series that has an entry
\* with no next book, upserted another series and completed with its final
\* save.
C19_Witness ==
    /\ pc = "done"
    /\ force
    /\ ~console_only
    /\ updated # {}
    /\ \E s \in excluded \cap Visited :
          /\ HasEntry(fileAtStart, s)
          /\ EntryOf(fileAtStart, s).next_book = None
          /\ HasEntry(file, s)

BldResolvable == {i \in 1..Len(bld.books) : bld.books[i].asin_found}

BldMax ==
    IF BldResolvable = {} THEN 0
    ELSE CHOOSE m \in {bld.books[i].order : i \in BldResolvable} :
            \A i \in BldResolvable : bld.books[i].order <= m

BldFirst(S) == CHOOSE i \in S : \A j \in S : i <= j

\* C20: for a series record, max_order is the largest order among the books
\* with a resolvable identifier, 0 when there is none; sample_asin is the
\* identifier of the first such book whose order is that maximum, which is
\* the first resolvable book when no order is above 0; a record without a
\* resolvable book has no sample.
C20_MaxOrderAndFirstSample ==
    bld.called =>
        /\ bld.max_order = BldMax
        /\ BldResolvable = {} => bld.sample_asin = None
        /\ BldResolvable # {} =>
              /\ bld.sample_asin =
                    Some(BldFirst({i \in BldResolvable : bld.books[i].order = BldMax}))
              /\ BldMax = 0 => bld.sample_asin = Some(BldFirst(BldResolvable))

\* C20 witness: two resolvable books share the highest order, a book without
\* identifier has a higher one still, and the sample is the first of the two.
C20_Witness ==
    /\ bld.called
    /\ \E i \in BldResolvable, j \in BldResolvable :
          /\ i < j
          /\ bld.books[i].order = BldMax
          /\ bld.books[j].order = BldMax
          /\ BldMax > 0
          /\ bld.sample_asin = Some(i)
    /\ \E k \in 1..Len(bld.books) :
          ~bld.books[k].asin_found /\ bld.books[k].order > BldMax

\* ------------------------------------------------------------ the resolver
\* The i-th member, in increasing order, of a set of positions.
Nth(Idx, k) == CHOOSE i \in Idx : Cardinality({j \in Idx : j <= i}) = k

\* The entries at the given positions, in list order, as candidates.
CandidatesAt(entries, Idx) ==
    [k \in 1..Cardinality(Idx) |-> Affiliation(entries[Nth(Idx, k)])]

Extracted == cat.op = "get_series_from_product"

FieldKept ==
    {i \in DOMAIN cat.product.series : Keeps(cat.product.series[i].sequence)}

RelationsKept ==
    {i \in DOMAIN cat.product.relationships :
        /\ cat.product.relationships[i].relationship_type = "series"
        /\ cat.product.relationships[i].relationship_to_product
               # "merchant_title_authority"
        /\ Keeps(cat.product.relationships[i].sequence)}

\* C21 (as amended): the candidates are the entries of the series field that
\* survive the order-field filter, in field order; the relationship list is
\* consulted exactly when no entry of the series field survives, and from it
\* only entries of type "series" that are not the "merchant_title_authority"
\* relation are kept.  Whenever an entry of the series field survives, no
\* candidate comes from the relationship list.
C21_FallbackWhenNoCandidate ==
    Extracted =>
        cat.series_info =
            IF FieldKept # {}
            THEN CandidatesAt(cat.product.series, FieldKept)
            ELSE CandidatesAt(cat.product.relationships, RelationsKept)

\* C21, witness: a series field whose only entry is dramatized, and a
\* relationship list with a "merchant_title_authority" back-reference and a
\* true series relation: the one candidate comes from the true relation.
C21_Witness ==
    /\ Extracted
    /\ cat.product.series # <<>>
    /\ FieldKept = {}
    /\ Len(cat.product.relationships) = 2
    /\ cat.product.relationships[1].relationship_type = "series"
    /\ cat.product.relationships[1].relationship_to_product
           = "merchant_title_authority"
    /\ RelationsKept = {2}
    /\ cat.series_info = <<Affiliation(cat.product.relationships[2])>>

\* C21 (as stated): the relationship list is consulted only if the series
\* field is empty; whenever the series field is non-empty, no candidate
\* comes from the relationship list.
C21_FallbackOnlyWhenFieldEmpty ==
    Extracted =>
        cat.series_info =
            IF cat.product.series # <<>>
            THEN CandidatesAt(cat.product.series, FieldKept)
            ELSE CandidatesAt(cat.product.relationships, RelationsKept)

Searched == cat.op = "search_series_books"

Candidates ==
    IF cat.product = None THEN <<>> ELSE get_series_from_product(cat.product[1])

TitleMatches ==
    {i \in DOMAIN Candidates :
        /\ HasTitle(Candidates[i])
        /\ Contains(Lower(Candidates[i].title[1]), Lower(cat.series_name))}

FirstOf(Idx) == CHOOSE i \in Idx : \A j \in Idx : i <= j

ExpectedTarget ==
    IF Candidates = <<>> THEN None
    ELSE IF TitleMatches # {} THEN Some(Candidates[FirstOf(TitleMatches)])
    ELSE Some(Candidates[1])

\* C22: search_series_books selects the first candidate, in candidate order,
\* whose title contains the series name case-insensitively, and the first
\* candidate if no title matches; with no candidate, or a selected candidate
\* without series identifier, it returns an empty result without querying
\* the catalog search, and otherwise it queries the search.
C22_TargetSelection ==
    Searched =>
        /\ cat.out.target = ExpectedTarget
        /\ IF ExpectedTarget = None \/ ExpectedTarget[1].asin = None
           THEN ~cat.out.queried /\ cat.out.books = <<>>
           ELSE cat.out.queried

\* C22, witness: two candidates, the first with a title that does not hold
\* the series name, the second holding it only up to letter case: the second
\* is selected and the search is queried.
C22_Witness ==
    /\ Searched
    /\ Len(Candidates) = 2
    /\ TitleMatches = {2}
    /\ HasTitle(Candidates[1])
    /\ ~Contains(Candidates[2].title[1], cat.series_name)
    /\ Candidates[1].asin # Candidates[2].asin
    /\ cat.out.target = Some(Candidates[2])
    /\ cat.out.queried

\* The affiliations of the search result a returned book came from (a book's
\* asin is the position of its search result).
AffiliationsOf(b) == get_series_from_product(cat.response.products[b.asin])

MatchingOf(b) ==
    {j \in DOMAIN AffiliationsOf(b) :
        AffiliationsOf(b)[j].asin = cat.out.target[1].asin}

\* C23: every book returned by search_series_books comes from a search
\* result that has, among its own affiliations, one with the selected
\* candidate's series identifier, and the book's sequence is the sequence of
\* that affiliation (the first such one), not of another series of the book;
\* each search result gives at most one book; the list ascends by sequence
\* and equal sequences stay in search-result order.
C23_ReturnedBooksBelongAndAscend ==
    Searched /\ cat.out.queried =>
        LET books == cat.out.books
        IN  /\ \A k \in DOMAIN books :
                  /\ books[k].asin \in DOMAIN cat.response.products
                  /\ MatchingOf(books[k]) # {}
                  /\ books[k].sequence
                        = AffiliationsOf(books[k])[FirstOf(MatchingOf(books[k]))].sequence
            /\ \A k, l \in DOMAIN books :
                  k < l =>
                      /\ books[k].asin # books[l].asin
                      /\ \/ books[k].sequence < books[l].sequence
                         \/ /\ books[k].sequence = books[l].sequence
                            /\ books[k].asin < books[l].asin

\* C23, witness: the first search result belongs to another series first
\* (with another sequence) and to the target series second; the second
\* result belongs to the target series with a lower sequence.  Both are
\* returned, the second result first, each with its target-series sequence.
C23_Witness ==
    /\ Searched
    /\ cat.out.queried
    /\ Len(cat.response.products) = 2
    /\ Len(cat.out.books) = 2
    /\ cat.out.books[1].asin = 2
    /\ cat.out.books[2].asin = 1
    /\ FirstOf(MatchingOf(cat.out.books[2])) = 2
    /\ AffiliationsOf(cat.out.books[2])[1].sequence # cat.out.books[2].sequence
    /\ cat.out.books[1].sequence < cat.out.books[2].sequence

\* ------------------------------------------------------- the series labels
Parsed == lbl.op = "parse_series_info"

Trimmed == Strip(lbl.series_name)

\* The positions at which the trimmed label reads  <name> #<order> : a hash
\* sign with a name before it and an order or a range of orders after it.
OrderMarks ==
    {h \in DOMAIN Trimmed :
        /\ Trimmed[h] = "#"
        /\ Strip(SubSeq(Trimmed, 1, h - 1)) # <<>>
        /\ IsOrderStr(SubSeq(Trimmed, h + 1, Len(Trimmed)))}

\* C26: parse_series_info gives a result for every label: for "<name> #<a>"
\* it is (name, a); for "<name> #<a>-<b>" it is (name, the larger of a and
\* b) whichever endpoint is larger; for every other label, the empty one
\* included, it is the trimmed label with order 0.
C26_ParseSeriesInfo ==
    Parsed =>
        /\ \A h \in OrderMarks :
              LET o == SubSeq(Trimmed, h + 1, Len(Trimmed))
              IN  /\ lbl.out.name = Strip(SubSeq(Trimmed, 1, h - 1))
                  /\ IsNum(o) => lbl.out.order = FloatOf(o)
                  /\ \A d \in DOMAIN o :
                        o[d] = "-" =>
                            LET a == FloatOf(SubSeq(o, 1, d - 1))
                                b == FloatOf(SubSeq(o, d + 1, Len(o)))
                            IN  /\ lbl.out.order \in {a, b}
                                /\ lbl.out.order >= a
                                /\ lbl.out.order >= b
        /\ OrderMarks = {} => lbl.out = [name |-> Trimmed, order |-> 0]

\* C26, witness: the label "a #2-1", a range whose first endpoint is the
\* larger one, parsed to the name "a" and the order 2.
C26_Witness ==
    /\ Parsed
    /\ lbl.series_name = <<"a", " ", "#", "2", "-", "1">>
    /\ lbl.out = [name |-> <<"a">>, order |-> 2 * Unit]

Ordered == lbl.op = "order_in_series"

SegmentName(i) == Lower(parse_series_info(lbl.segments[i]).name)

SegmentOrder(i) == parse_series_info(lbl.segments[i]).order

ExactSegments ==
    {i \in DOMAIN lbl.segments : SegmentName(i) = Lower(lbl.series_name)}

PartialSegments ==
    {i \in DOMAIN lbl.segments :
        \/ Contains(SegmentName(i), Lower(lbl.series_name))
        \/ Contains(Lower(lbl.series_name), SegmentName(i))}

LastOf(Idx) == CHOOSE i \in Idx : \A j \in Idx : i >= j

\* C24: a book's order within a series record is the order of the (first)
\* label segment whose parsed name equals the record's name
\* case-insensitively whenever there is one, wherever it stands and whatever
\* other segments substring-match; only without an exact segment it is the
\* order of a segment whose name contains or is contained in the record's
\* name (the last such one); with no matching segment it is 0.
C24_ExactSegmentPreferred ==
    Ordered =>
        lbl.order =
            IF ExactSegments # {} THEN SegmentOrder(FirstOf(ExactSegments))
            ELSE IF PartialSegments # {} THEN SegmentOrder(LastOf(PartialSegments))
            ELSE 0

\* C24, witness: three segments, the exact one in the middle, a partial
\* match with another order on either side; the order is the exact one's.
C24_Witness ==
    /\ Ordered
    /\ Len(lbl.segments) = 3
    /\ ExactSegments = {2}
    /\ PartialSegments = {1, 2, 3}
    /\ SegmentOrder(1) # SegmentOrder(2)
    /\ SegmentOrder(3) # SegmentOrder(2)
    /\ lbl.segments[2] # Lower(lbl.segments[2])
    /\ lbl.order = SegmentOrder(2)
    /\ lbl.order > 0

\* ------------------------------------------------------ the upsert, alone
\* C30: a call of update_series(name, owned_max, next_book) that returns,
\* made on a readable cache, leaves a readable cache in which the entry of
\* name is the one given, every other series has the entry it had, no other
\* series has appeared, the new_releases list is the same, and last_updated
\* holds the time of the call.
C30_UpsertTouchesOneEntry ==
    st.call.op = "update_series" /\ ~st.res.raised /\ st.before.state = "ok" =>
        /\ st.file.state = "ok"
        /\ DOMAIN st.file.doc.series
              = DOMAIN st.before.doc.series \cup {st.call.series_name}
        /\ \A s \in DOMAIN st.before.doc.series \ {st.call.series_name} :
              st.file.doc.series[s] = st.before.doc.series[s]
        /\ st.file.doc.series[st.call.series_name]
              = [owned_max |-> st.call.max_order, next_book |-> st.call.next_book]
        /\ st.file.doc.new_releases = st.before.doc.new_releases
        /\ st.file.doc.last_updated = Some(st.call.now)

\* C30, witness: a cache with entries for A and B, a non-empty new_releases
\* list and an older stamp; update_series changes A's entry and returns.
C30_Witness ==
    /\ st.call.op = "update_series"
    /\ ~st.res.raised
    /\ st.before.state = "ok"
    /\ DOMAIN st.before.doc.series = {"A", "B"}
    /\ st.before.doc.new_releases # <<>>
    /\ st.call.series_name = "A"
    /\ st.before.doc.last_updated # Some(st.call.now)
    /\ st.file.doc.series["A"] # st.before.doc.series["A"]
    /\ st.file.doc.series["B"] = st.before.doc.series["B"]
    /\ st.file.doc.new_releases = st.before.doc.new_releases
    /\ st.file.doc.last_updated = Some(st.call.now)

\* ------------------------------------------------- the cache across runs
\* C28: in every state of the cache file that the runs produce, each entry
\* whose next_book is present has a whole-numbered next_book sequence that
\* is strictly greater than the entry's owned_max.
C28_NextBookBeyondOwned ==
    \A s \in Series :
        HasEntry(file, s) /\ EntryOf(file, s).next_book # None =>
            /\ IsWhole(EntryOf(file, s).next_book[1].sequence)
            /\ EntryOf(file, s).next_book[1].sequence > EntryOf(file, s).owned_max

\* C28, witness: a second run has rewritten, for a larger owned_max, an
\* entry that had a next book, again with a next book, while the catalog
\* offered it.
C28_Witness ==
    /\ runs = 2
    /\ pc = "done"
    /\ HasEntry(fileAtStart, "A")
    /\ EntryOf(fileAtStart, "A").next_book # None
    /\ "A" \in updated
    /\ EntryOf(file, "A").owned_max > EntryOf(fileAtStart, "A").owned_max
    /\ EntryOf(file, "A").next_book # None
    /\ EntryOf(file, "A").next_book[1] \in Offered("A")

\* C29 as claimed: over runs without the force flag the cached owned_max of
\* a series never decreases: whatever entry the file holds for a series, its
\* owned_max is at least the highest one cached for that series since the
\* last forced run.
C29_OwnedMaxNeverDecreases ==
    ~force =>
        \A s \in Series :
            HasEntry(file, s) => EntryOf(file, s).owned_max >= peak[s]

\* C25: when a run that is not console-only has completed, the new_releases
\* list in the file is exactly the list of notices of that run (empty when
\* it detected none), whatever list the file held before; and while the run
\* is under way, through all its upserts, the file's list is the one it
\* held when the run started.
C25_NewReleasesOfLastRunOnly ==
    /\ pc = "done" /\ ~console_only =>
          /\ file.state = "ok"
          /\ file.doc.new_releases = new_releases
    /\ pc \in {"loop", "notify", "save"} =>
          load_cache(file).new_releases = load_cache(fileAtStart).new_releases

\* C25, witness: the file held the notice of an earlier run for one series;
\* this run upserted and detected a release of the other series, completed,
\* and the file holds this run's notice alone.
C25_Witness ==
    /\ pc = "done"
    /\ ~console_only
    /\ fileAtStart.state = "ok"
    /\ Len(fileAtStart.doc.new_releases) = 1
    /\ Len(new_releases) = 1
    /\ new_releases[1].series_name # fileAtStart.doc.new_releases[1].series_name
    /\ updated # {}
    /\ file.doc.new_releases = new_releases

\* C27 as claimed: a release whose absent-to-present transition the upsert
\* has recorded is dispatched in that run or in a later one.  A later run
\* learns of the release from the file alone, so whenever a run has ended,
\* each transition it recorded has been handed to the notification, or the
\* file still shows the series without next book, so that detect_new_release
\* finds the release again.
C27_DetectedReleaseDispatched ==
    pc \in {"done", "failed", "interrupted"} =>
        \A s \in transitions :
            \/ notified # "none"
            \/ \E b \in StoredNextBooks \ {None} : detect_new_release(file, s, b)

====
